---- MODULE Spec2Model ----
(***************************************************************************)
(* Model of the ESG metrics extractor: the Streamlit script app/main.py    *)
(* (upload, cache check, per-part loop, save), the response parsing of     *)
(* MetricsExtractor.extract_metrics and the comparison page                *)
(* compare_metrics_page.                                                   *)
(*                                                                         *)
(* Texts are sequences of tokens.  Each token stands for a fixed piece of  *)
(* text:  "[" "]" "{" "}" ","  themselves;  "_" one whitespace character;  *)
(* "w" a prose word without brackets (Here);  "t" the JSON scalar true;    *)
(* "F" a triple backtick;  "j" the tag json;  a member token ("mEnv", ...) *)
(* the member list of one JSON object, "metric_name": ..., "category": ... *)
(* Strings that the code transforms by character (category labels, file    *)
(* names) are sequences of characters.                                     *)
(***************************************************************************)
EXTENDS Integers, Sequences, FiniteSets, TLC

VARIABLES
    env_key,       \* os.environ of the process that serves main.py has GOOGLE_API_KEY
    csv,           \* data/extracted_results: file name -> persisted metric table
    pc,            \* main.py: "idle" between script runs, "loop" inside the part loop
    file_name,     \* main.py: uploaded_file.name of the current (or last) run
    pdf_parts,     \* main.py: page count of each part returned by split_pdf
    idx,           \* main.py: index of the part the loop is at
    page_offset,   \* main.py: page_offset
    all_metrics,   \* main.py: all_metrics
    last_result,   \* how the last script run ended
    oracle_calls,  \* generate_content calls made so far (all runs)
    run_calls,     \* generate_content calls made by the current (or last) run
    rerun,         \* the current run's identifier had already been run to completion
    completed,     \* identifiers whose pipeline run reached the end of the script
    part_log,      \* per part of the current run: the page numbers it was given and
                   \* the oracle's answers to its pages
    events,        \* the current run's generate_content calls and time.sleep(5)
                   \* calls, in the order they were made
    cache,         \* data/cached_json: file name -> cached comparison
    selected_files, \* compare page: the multiselect, in the order of selection
    category,      \* compare page: the category selectbox
    cmp_result,    \* compare page: how the last run of the page ended
    cmp_calls,     \* compare page: generate_content calls made so far
    cmp_known,     \* the last request's category and document set were already cached
    computed,      \* <<category, document set>> pairs computed and cached so far
    p_text,        \* extract_metrics: response.text of the page under test
    p_page,        \* extract_metrics: page_number of that page
    p_out          \* extract_metrics: what the parsing step produced for it

main_vars == <<pc, file_name, pdf_parts, idx, page_offset, all_metrics,
               last_result, oracle_calls, run_calls, rerun, completed, part_log,
               events>>
cmp_vars == <<cache, selected_files, category, cmp_result, cmp_calls, cmp_known, computed>>
parse_vars == <<p_text, p_page, p_out>>
vars == <<env_key, csv, main_vars, cmp_vars, parse_vars>>

(***************************************************************************)
(* Bounds of the model.                                                    *)
(***************************************************************************)
MaxAffix == 2      \* longest prose prefix / suffix around a response core
MaxPages == 3      \* most pages of an uploaded document
MaxWindow == 3     \* largest pages_per_part tried (the sidebar allows up to 20)
MaxCalls == 3      \* oracle calls after which no further extraction is started
MaxCmpCalls == 2   \* oracle calls after which no further comparison is computed

\* st.number_input("Pages per part", min_value=2, ...)
MinWindow == 2

(***************************************************************************)
(* Python strings.                                                         *)
(***************************************************************************)
\* None, NaN: values that are not strings.
NoneVal == <<"<None>">>

LowerChars == <<"a", "c", "e", "f", "g", "i", "l", "m", "n", "o", "r", "s", "t", "v">>
UpperChars == <<"A", "C", "E", "F", "G", "I", "L", "M", "N", "O", "R", "S", "T", "V">>

\* str.lower() / str.upper() of one character.
LowerChar(c) ==
    IF \E i \in 1..Len(UpperChars) : UpperChars[i] = c
    THEN LowerChars[CHOOSE i \in 1..Len(UpperChars) : UpperChars[i] = c]
    ELSE c

UpperChar(c) ==
    IF \E i \in 1..Len(LowerChars) : LowerChars[i] = c
    THEN UpperChars[CHOOSE i \in 1..Len(LowerChars) : LowerChars[i] = c]
    ELSE c

\* str.lower()
Lower(s) == [i \in 1..Len(s) |-> LowerChar(s[i])]

\* str.capitalize(): first character upper-cased, the rest lower-cased.
Capitalize(s) ==
    [i \in 1..Len(s) |-> IF i = 1 THEN UpperChar(s[i]) ELSE LowerChar(s[i])]

\* str.strip() on a token text: leading and trailing whitespace removed.
RECURSIVE LStrip(_)
LStrip(s) == IF s # <<>> /\ Head(s) = "_" THEN LStrip(Tail(s)) ELSE s

RECURSIVE RStrip(_)
RStrip(s) ==
    IF s # <<>> /\ s[Len(s)] = "_" THEN RStrip(SubSeq(s, 1, Len(s) - 1)) ELSE s

Strip(s) == RStrip(LStrip(s))

(***************************************************************************)
(* Category labels and the member lists the oracle can return.             *)
(***************************************************************************)
Environmental == <<"E", "n", "v", "i", "r", "o", "n", "m", "e", "n", "t", "a", "l">>
Social == <<"S", "o", "c", "i", "a", "l">>
Governance == <<"G", "o", "v", "e", "r", "n", "a", "n", "c", "e">>
environmental == <<"e", "n", "v", "i", "r", "o", "n", "m", "e", "n", "t", "a", "l">>
ENVIRONMENTAL == <<"E", "N", "V", "I", "R", "O", "N", "M", "E", "N", "T", "A", "L">>
governance == <<"g", "o", "v", "e", "r", "n", "a", "n", "c", "e">>
Foo == <<"F", "o", "o">>
EmptyStr == <<>>

\* The five keys the prompt asks for, with a given category value.
FullMetric(name, cat) ==
    [metric_name |-> name, value |-> "100", unit |-> "tCO2e", year |-> "2023",
     category |-> cat]

MemberToks ==
    {"mEnv", "mUp", "mSoc", "mGov", "mFoo", "mEmpty", "mNull", "mNoCat", "mNoUnit"}

\* The JSON object { <member token> } as a Python dict (a function on its keys).
MemberDict(tok) ==
    CASE tok = "mEnv" -> FullMetric("Scope 1", environmental)
      [] tok = "mUp" -> FullMetric("Scope 2", ENVIRONMENTAL)
      [] tok = "mSoc" -> FullMetric("Headcount", Social)
      [] tok = "mGov" -> FullMetric("Board seats", governance)
      [] tok = "mFoo" -> FullMetric("Water use", Foo)
      [] tok = "mEmpty" -> FullMetric("Waste", EmptyStr)
      [] tok = "mNull" -> FullMetric("Energy", NoneVal)
      [] tok = "mNoCat" ->
            [metric_name |-> "Injuries", value |-> "100", unit |-> "count",
             year |-> "2023"]
      [] tok = "mNoUnit" ->
            [metric_name |-> "Training", value |-> "100", year |-> "2023",
             category |-> Social]

EmptyDict == <<>>

\* d[k] = v on a Python dict.
DictSet(d, k, v) == [x \in (DOMAIN d) \cup {k} |-> IF x = k THEN v ELSE d[x]]

\* min() and max() of a set of positions.
Min(S) == CHOOSE x \in S : \A y \in S : x <= y
Max(S) == CHOOSE x \in S : \A y \in S : x >= y

(***************************************************************************)
(* json.loads on token texts.                                              *)
(*   value   ::= t | [ ws ] | [ elems ] | { ws } | { members }             *)
(*   elems   ::= ws value ws | ws value ws , elems                         *)
(*   members ::= ws member ws | ws member ws , members                     *)
(* A key that several member tokens of one object give keeps the value of  *)
(* the last of them.                                                       *)
(***************************************************************************)
IsWs(s) == \A i \in 1..Len(s) : s[i] = "_"

Inner(s) == SubSeq(s, 2, Len(s) - 1)

\* Member tokens with whitespace around them, separated by commas.
RECURSIVE IsMembers(_)
IsMembers(s) ==
    LET commas == {i \in 1..Len(s) : s[i] = ","}
        first == IF commas = {} THEN s ELSE SubSeq(s, 1, Min(commas) - 1)
    IN /\ Len(Strip(first)) = 1
       /\ Strip(first)[1] \in MemberToks
       /\ commas # {} => IsMembers(SubSeq(s, Min(commas) + 1, Len(s)))

\* The dict of the member tokens of s, from left to right.
RECURSIVE MembersDict(_)
MembersDict(s) ==
    IF s = <<>> THEN EmptyDict
    ELSE LET rest == MembersDict(SubSeq(s, 1, Len(s) - 1))
             last == IF s[Len(s)] \in MemberToks THEN MemberDict(s[Len(s)]) ELSE EmptyDict
         IN [x \in (DOMAIN rest) \cup (DOMAIN last) |->
                IF x \in DOMAIN last THEN last[x] ELSE rest[x]]

IsObject(s) ==
    /\ Len(s) >= 2 /\ s[1] = "{" /\ s[Len(s)] = "}"
    /\ (IsWs(Inner(s)) \/ IsMembers(Inner(s)))

RECURSIVE IsValue(_), IsElems(_)
IsValue(s) ==
    \/ s = <<"t">>
    \/ IsObject(s)
    \/ /\ Len(s) >= 2 /\ s[1] = "[" /\ s[Len(s)] = "]"
       /\ (IsWs(Inner(s)) \/ IsElems(Inner(s)))

IsElems(s) ==
    \/ IsValue(Strip(s))
    \/ \E i \in 1..Len(s) :
          /\ s[i] = ","
          /\ IsValue(Strip(SubSeq(s, 1, i - 1)))
          /\ IsElems(SubSeq(s, i + 1, Len(s)))

\* The parsed value: kind "scalar", "dict" (d) or "list" (items).
Scalar == [k |-> "scalar", d |-> EmptyDict, items |-> <<>>]

RECURSIVE Value(_), Elems(_)
Value(s) ==
    IF s = <<"t">> THEN Scalar
    ELSE IF IsObject(s)
    THEN LET b == Strip(Inner(s))
         IN [k |-> "dict", d |-> MembersDict(b), items |-> <<>>]
    ELSE [k |-> "list", d |-> EmptyDict,
          items |-> IF IsWs(Inner(s)) THEN <<>> ELSE Elems(Inner(s))]

Elems(s) ==
    IF IsValue(Strip(s)) THEN <<Value(Strip(s))>>
    ELSE LET i == CHOOSE j \in 1..Len(s) :
                      /\ s[j] = ","
                      /\ IsValue(Strip(SubSeq(s, 1, j - 1)))
                      /\ IsElems(SubSeq(s, j + 1, Len(s)))
         IN <<Value(Strip(SubSeq(s, 1, i - 1)))>> \o Elems(SubSeq(s, i + 1, Len(s)))

\* json.loads(s) succeeds (leading and trailing whitespace is allowed).
JsonOk(s) == IsValue(Strip(s))
JsonLoads(s) == Value(Strip(s))

(***************************************************************************)
(* re.search(r'(\[.*\]|\{.*\})', raw_text, re.DOTALL): the leftmost        *)
(* position that opens a span, "[" to the last "]" or "{" to the last "}". *)
(* The match is never empty, so <<>> stands for no match.                  *)
(***************************************************************************)
NoMatch == <<>>

Closer(c) == IF c = "[" THEN "]" ELSE "}"

SpanStarts(s) ==
    {i \in 1..Len(s) :
        /\ s[i] \in {"[", "{"}
        /\ \E j \in (i + 1)..Len(s) : s[j] = Closer(s[i])}

SpanSearch(s) ==
    IF SpanStarts(s) = {} THEN NoMatch
    ELSE LET i == Min(SpanStarts(s))
             j == Max({n \in (i + 1)..Len(s) : s[n] = Closer(s[i])})
         IN SubSeq(s, i, j)

(***************************************************************************)
(* MetricsExtractor.extract_metrics, lines 49-76: the parsing of one       *)
(* page's response.  raised: an exception leaves extract_metrics.          *)
(***************************************************************************)
Stamp(d, page_number) == DictSet(d, "source_page", page_number)

RECURSIVE StampDicts(_, _)
StampDicts(items, page_number) ==
    IF items = <<>> THEN <<>>
    ELSE (IF Head(items).k = "dict" THEN <<Stamp(Head(items).d, page_number)>>
          ELSE <<>>)
         \o StampDicts(Tail(items), page_number)

\* The isinstance(parsed, list) / isinstance(parsed, dict) branches.
RecordsOf(parsed, page_number) ==
    IF parsed.k = "list" THEN StampDicts(parsed.items, page_number)
    ELSE IF parsed.k = "dict" THEN <<Stamp(parsed.d, page_number)>>
    ELSE <<>>

Unparsed(raw_text, page_number) ==
    [raw_output |-> raw_text, source_page |-> page_number]

ParsePage(text, page_number) ==
    IF text = NoneVal
    THEN [raised |-> TRUE, recs |-> <<>>]          \* None.strip()
    ELSE LET raw_text == Strip(text)
             match == SpanSearch(raw_text)
         IN IF JsonOk(raw_text)
            THEN [raised |-> FALSE, recs |-> RecordsOf(JsonLoads(raw_text), page_number)]
            ELSE IF match # NoMatch
            THEN IF JsonOk(match)
                 THEN [raised |-> FALSE,
                       recs |-> RecordsOf(JsonLoads(match), page_number)]
                 ELSE [raised |-> TRUE, recs |-> <<>>]   \* json.loads in the handler
            ELSE [raised |-> FALSE, recs |-> <<Unparsed(raw_text, page_number)>>]

(***************************************************************************)
(* Response texts for the parsing step: a core with prose around it.       *)
(***************************************************************************)
AffixToks == {"[", "]", "{", "}", ",", "_", "w", "t"}

Affixes == UNION {[1..n -> AffixToks] : n \in 0..MaxAffix}

\* An array of two objects: bare, in a fence tagged json, and (one object) in an
\* untagged fence.
ArrayOfTwo == <<"[", "{", "mEnv", "}", ",", "{", "mSoc", "}", "]">>
FencedArray == <<"F", "j", "_">> \o ArrayOfTwo \o <<"_", "F">>
FencedPlain == <<"F", "[", "{", "mEnv", "}", "]", "F">>

FencedCores == {FencedArray, FencedPlain}

Cores ==
    {<<>>, ArrayOfTwo, <<"{", "mEnv", "}">>, <<"w", "F", "w">>} \cup FencedCores

ParseTexts == {a \o c \o b : a \in Affixes, c \in Cores, b \in Affixes}

NotParsed == [raised |-> FALSE, recs |-> <<>>, done |-> FALSE]

ParseInit ==
    /\ p_text \in ParseTexts
    /\ p_page \in 1..2
    /\ p_out = NotParsed

ParseIdle ==
    /\ p_text = <<>>
    /\ p_page = 1
    /\ p_out = NotParsed

\* The parsing step of extract_metrics applied to the page's response.
ParseResponse ==
    /\ ~p_out.done
    /\ p_out' = [raised |-> ParsePage(p_text, p_page).raised,
                 recs |-> ParsePage(p_text, p_page).recs,
                 done |-> TRUE]
    /\ UNCHANGED <<p_text, p_page>>
    /\ UNCHANGED <<env_key, csv, main_vars, cmp_vars>>


(***************************************************************************)
(* main.py: file names, the chunker, the oracle's answers to a page.       *)
(***************************************************************************)
Files == {<<"a", ".", "pdf">>, <<"b", ".", "pdf">>}

\* Path(file_name).stem: the name up to its last dot, unless that dot is the
\* first or the last character (then the name has no suffix).  Path(".") is
\* the current directory, whose name is empty.
Stem(name) ==
    LET dots == {i \in 1..Len(name) : name[i] = "."}
    IN IF name = <<".">> THEN <<>>
       ELSE IF dots = {} \/ Max(dots) = 1 \/ Max(dots) = Len(name) THEN name
       ELSE SubSeq(name, 1, Max(dots) - 1)

\* result_csv = results_dir / f"{Path(file_name).stem}.csv"
ResultCsv(name) == Stem(name) \o <<".", "csv">>

\* extractor.pdf_splitter.split_pdf: the page count of each part, in order.
SplitPdf(pages, pages_per_part) ==
    [i \in 1..((pages + pages_per_part - 1) \div pages_per_part) |->
        IF i * pages_per_part <= pages THEN pages_per_part
        ELSE pages - (i - 1) * pages_per_part]

\* generate_content raised instead of returning a response.
OracleError == <<"<OracleError>">>

PageResponses ==
    { <<"[", "{", "mEnv", "}", "]">>,
      <<"[", "{", "mUp", "}", ",", "{", "mGov", "}", ",", "{", "mFoo", "}", ",",
        "{", "mEmpty", "}", ",", "{", "mNoCat", "}", "]">>,
      <<"[", "{", "mNull", "}", "]">>,
      <<"{", "mNoUnit", "}">>,
      <<"_", "w", "_">>,
      <<"[", "]">>,
      <<"[", "w", "]">> }

PageOutcomes == PageResponses \cup {OracleError}

(***************************************************************************)
(* MetricsExtractor.extract_metrics: the loop over the part's pages.  One  *)
(* oracle call per page; an exception (the call's, or the parsing step's)  *)
(* leaves the function and the records of the earlier pages are lost.      *)
(***************************************************************************)
RECURSIVE ExtractMetrics(_)
ExtractMetrics(text_chunks) ==
    IF text_chunks = <<>> THEN [raised |-> FALSE, recs |-> <<>>, calls |-> 0]
    ELSE LET chunk == Head(text_chunks)
             page == ParsePage(chunk.response, chunk.page_number)
             rest == ExtractMetrics(Tail(text_chunks))
         IN IF chunk.response = OracleError \/ page.raised
            THEN [raised |-> TRUE, recs |-> <<>>, calls |-> 1]
            ELSE [raised |-> rest.raised,
                  recs |-> IF rest.raised THEN <<>> ELSE page.recs \o rest.recs,
                  calls |-> 1 + rest.calls]

(***************************************************************************)
(* main.py lines 125-129: source stamp and category normalization.         *)
(***************************************************************************)
ValidCategories == {Environmental, Social, Governance}

\* f"{file_name} - page {m.get('source_page', 'unknown')}"
SourceOf(name, m) ==
    [file |-> name,
     page |-> IF "source_page" \in DOMAIN m THEN <<m.source_page>> ELSE <<"unknown">>]

\* m.get("category", "")
CategoryOf(m) == IF "category" \in DOMAIN m THEN m.category ELSE EmptyStr

\* .capitalize() on a value that is not a string raises AttributeError.
NormalizeRaises(m) == CategoryOf(m) = NoneVal

NormalizeOne(m, name) ==
    LET stamped == DictSet(m, "source", SourceOf(name, m))
    IN IF Capitalize(CategoryOf(m)) \notin ValidCategories
       THEN DictSet(stamped, "category", Environmental)
       ELSE stamped

NormalizeAll(metrics, name) ==
    [raised |-> \E i \in 1..Len(metrics) : NormalizeRaises(metrics[i]),
     recs |-> [i \in 1..Len(metrics) |-> NormalizeOne(metrics[i], name)]]

(***************************************************************************)
(* main.py lines 146-156: combine and save.                                *)
(***************************************************************************)
ColumnsOrder == <<"metric_name", "value", "unit", "year", "category", "source">>

ColumnSet == {ColumnsOrder[i] : i \in 1..Len(ColumnsOrder)}

\* pd.DataFrame(all_metrics).columns: the union of the records' keys.
FrameColumns(metrics) == UNION {DOMAIN metrics[i] : i \in 1..Len(metrics)}

\* A cell of the frame: NaN where the record lacks the key.
NaN == "NaN"

Cell(m, col) == IF col \in DOMAIN m THEN m[col] ELSE NaN

\* df[columns_order] raises KeyError when a label is not a column of the frame.
ProjectRaises(metrics) == ~(ColumnSet \subseteq FrameColumns(metrics))

Project(metrics) ==
    [i \in 1..Len(metrics) |-> [col \in ColumnSet |-> Cell(metrics[i], col)]]

WriteFile(dir, name, content) ==
    [f \in (DOMAIN dir) \cup {name} |-> IF f = name THEN content ELSE dir[f]]

SaveResults(metrics) ==
    IF metrics = <<>>
    THEN /\ last_result' = "no_metrics"
         /\ completed' = completed \cup {Stem(file_name)}
         /\ csv' = csv
    ELSE IF ProjectRaises(metrics)
    THEN /\ last_result' = "KeyError"
         /\ UNCHANGED <<completed, csv>>
    ELSE /\ last_result' = "saved"
         /\ completed' = completed \cup {Stem(file_name)}
         /\ csv' = WriteFile(csv, ResultCsv(file_name), Project(metrics))

(***************************************************************************)
(* main.py: one script run per upload.                                     *)
(***************************************************************************)
MainIdle ==
    /\ pc = "idle"
    /\ file_name = <<>>
    /\ pdf_parts = <<>>
    /\ idx = 1
    /\ page_offset = 0
    /\ all_metrics = <<>>
    /\ last_result = "none"
    /\ oracle_calls = 0
    /\ run_calls = 0
    /\ rerun = FALSE
    /\ completed = {}
    /\ part_log = <<>>
    /\ events = <<>>

run_vars == <<pdf_parts, idx, page_offset, all_metrics, part_log, events>>

\* The upload without the key guard: the script goes on to split the document
\* and enters the loop.
UploadNoKeySplits ==
    /\ pc = "idle"
    /\ \E f \in Files, pages \in 1..MaxPages, pages_per_part \in MinWindow..MaxWindow :
          /\ ResultCsv(f) \notin DOMAIN csv
          /\ file_name' = f
          /\ pdf_parts' = SplitPdf(pages, pages_per_part)
    /\ pc' = "loop"
    /\ last_result' = "running"
    /\ UNCHANGED <<env_key, csv, rerun, run_calls, oracle_calls, completed, idx,
                   page_offset, all_metrics, part_log, events>>
    /\ UNCHANGED <<cmp_vars, parse_vars>>

\* Lines 23-28: a key is typed in the sidebar and no file is uploaded; the
\* script sets GOOGLE_API_KEY and ends at the file uploader.
KeyOnly ==
    /\ pc = "idle"
    /\ env_key' = TRUE
    /\ UNCHANGED <<csv, main_vars, cmp_vars, parse_vars>>

\* Lines 62-64: a file is uploaded and the sidebar holds no API key; the script
\* stops before it looks at the file.
UploadNoKey ==
    /\ pc = "idle"
    /\ last_result' = "no_key"
    /\ UNCHANGED <<env_key, csv, pc, file_name, rerun, run_calls, oracle_calls,
                   completed, run_vars>>
    /\ UNCHANGED <<cmp_vars, parse_vars>>

\* Lines 72-82: the result file exists; it is read and shown.
UploadCached ==
    /\ pc = "idle"
    /\ \E f \in Files :
          /\ ResultCsv(f) \in DOMAIN csv
          /\ file_name' = f
          /\ rerun' = (Stem(f) \in completed)
          /\ completed' = completed \cup {Stem(f)}
    /\ env_key' = TRUE
    /\ last_result' = "cached"
    /\ run_calls' = 0
    /\ UNCHANGED <<csv, pc, oracle_calls, run_vars>>
    /\ UNCHANGED <<cmp_vars, parse_vars>>

\* The upload without the check for an existing result file: every upload is
\* split and processed.
UploadNewUnchecked ==
    /\ pc = "idle"
    /\ \E f \in Files, pages \in 1..MaxPages, pages_per_part \in MinWindow..MaxWindow :
          /\ oracle_calls + pages <= MaxCalls
          /\ file_name' = f
          /\ rerun' = (Stem(f) \in completed)
          /\ pdf_parts' = SplitPdf(pages, pages_per_part)
    /\ env_key' = TRUE
    /\ pc' = "loop"
    /\ idx' = 1
    /\ page_offset' = 0
    /\ all_metrics' = <<>>
    /\ part_log' = <<>>
    /\ events' = <<>>
    /\ last_result' = "running"
    /\ run_calls' = 0
    /\ UNCHANGED <<csv, oracle_calls, completed>>
    /\ UNCHANGED <<cmp_vars, parse_vars>>

\* Lines 84-107: no result file; the document is split and the loop starts.
UploadNew ==
    /\ pc = "idle"
    /\ \E f \in Files, pages \in 1..MaxPages, pages_per_part \in MinWindow..MaxWindow :
          /\ ResultCsv(f) \notin DOMAIN csv
          /\ oracle_calls + pages <= MaxCalls
          /\ file_name' = f
          /\ rerun' = (Stem(f) \in completed)
          /\ pdf_parts' = SplitPdf(pages, pages_per_part)
    /\ env_key' = TRUE
    /\ pc' = "loop"
    /\ idx' = 1
    /\ page_offset' = 0
    /\ all_metrics' = <<>>
    /\ part_log' = <<>>
    /\ events' = <<>>
    /\ last_result' = "running"
    /\ run_calls' = 0
    /\ UNCHANGED <<csv, oracle_calls, completed>>
    /\ UNCHANGED <<cmp_vars, parse_vars>>

\* The end of one loop iteration: extract_metrics has called the oracle once
\* per page it got to, and the loop sleeps (line 136, or line 140 in the except
\* branch); after the last part the script goes on to combine and save (lines
\* 143-156) and ends.
EndOfPart(metrics, offset, entry, calls) ==
    /\ all_metrics' = metrics
    /\ page_offset' = offset
    /\ part_log' = Append(part_log, entry)
    /\ events' = events \o [i \in 1..calls |-> "call"] \o <<"sleep">>
    /\ oracle_calls' = oracle_calls + calls
    /\ run_calls' = run_calls + calls
    /\ idx' = idx + 1
    /\ UNCHANGED <<env_key, file_name, pdf_parts, rerun>>
    /\ UNCHANGED <<cmp_vars, parse_vars>>
    /\ IF idx < Len(pdf_parts)
       THEN /\ pc' = "loop"
            /\ UNCHANGED <<csv, last_result, completed>>
       ELSE /\ pc' = "idle"
            /\ SaveResults(metrics)

\* Lines 111-119 raise (pdfplumber cannot open the part or read a page): the
\* except branch (lines 138-141) reports the part and the loop continues.
PartUnreadable ==
    /\ pc = "loop"
    /\ EndOfPart(all_metrics, page_offset,
                 [read |-> FALSE, pages |-> <<>>, responses |-> <<>>], 0)

\* The loop body with the part's records put in front of the list.
PartExtractPrepends ==
    /\ pc = "loop"
    /\ \E responses \in [1..pdf_parts[idx] -> PageOutcomes] :
          LET text_chunks ==
                  [i \in 1..pdf_parts[idx] |->
                      [page_number |-> page_offset + i, response |-> responses[i]]]
              metrics == ExtractMetrics(text_chunks)
              normal == NormalizeAll(metrics.recs, file_name)
              entry == [read |-> TRUE,
                        pages |-> [i \in 1..pdf_parts[idx] |-> text_chunks[i].page_number],
                        responses |-> [i \in 1..metrics.calls |-> responses[i]]]
          IN IF ~metrics.raised /\ ~normal.raised
             THEN EndOfPart(normal.recs \o all_metrics, page_offset + pdf_parts[idx],
                            entry, metrics.calls)
             ELSE EndOfPart(all_metrics, page_offset, entry, metrics.calls)

\* Lines 111-136: the part's pages are read, numbered and sent to the oracle;
\* an exception of extract_metrics or of the normalization goes to the except
\* branch, which leaves all_metrics and page_offset as they were.
PartExtract ==
    /\ pc = "loop"
    /\ \E responses \in [1..pdf_parts[idx] -> PageOutcomes] :
          LET text_chunks ==
                  [i \in 1..pdf_parts[idx] |->
                      [page_number |-> page_offset + i, response |-> responses[i]]]
              metrics == ExtractMetrics(text_chunks)
              normal == NormalizeAll(metrics.recs, file_name)
              entry == [read |-> TRUE,
                        pages |-> [i \in 1..pdf_parts[idx] |-> text_chunks[i].page_number],
                        responses |-> [i \in 1..metrics.calls |-> responses[i]]]
          IN IF ~metrics.raised /\ ~normal.raised
             THEN EndOfPart(all_metrics \o normal.recs, page_offset + pdf_parts[idx],
                            entry, metrics.calls)
             ELSE EndOfPart(all_metrics, page_offset, entry, metrics.calls)

(***************************************************************************)
(* compare_metrics.py: extract_json.                                       *)
(* re.search(r"```(?:json)?\s*(\[[\s\S]*\])\s*```", text): the leftmost    *)
(* fence that is followed by an optional tag, whitespace and "[", with the *)
(* last "]" that whitespace and a fence follow.                            *)
(***************************************************************************)
At(s, i) == IF i \in 1..Len(s) THEN s[i] ELSE "<end>"

\* The first position at or after i that holds no whitespace.
RECURSIVE SkipWs(_, _)
SkipWs(s, i) == IF At(s, i) = "_" THEN SkipWs(s, i + 1) ELSE i

\* Where the bracketed group of a fence opened at p would start.
GroupStart(s, p) == SkipWs(s, IF At(s, p + 1) = "j" THEN p + 2 ELSE p + 1)

GroupEnds(s, p) ==
    {r \in (GroupStart(s, p) + 1)..Len(s) :
        s[r] = "]" /\ At(s, SkipWs(s, r + 1)) = "F"}

FenceStarts(s) ==
    {p \in 1..Len(s) :
        s[p] = "F" /\ At(s, GroupStart(s, p)) = "[" /\ GroupEnds(s, p) # {}}

extract_json(text) ==
    IF FenceStarts(text) = {} THEN Strip(text)
    ELSE LET p == Min(FenceStarts(text))
         IN Strip(SubSeq(text, GroupStart(text, p), Max(GroupEnds(text, p))))

(***************************************************************************)
(* compare_metrics.py: compare_metrics_page.                               *)
(***************************************************************************)
\* The result files of earlier extractions, as main.py writes them: the
\* records of the given objects, normalized and projected.
ExtractedTable(pdf_name, toks) ==
    Project(NormalizeAll([i \in 1..Len(toks) |-> Stamp(MemberDict(toks[i]), i)],
                         pdf_name).recs)

ACsv == <<"a", ".", "csv">>
BCsv == <<"b", ".", "csv">>
ABCsv == <<"a", "_", "b", ".", "csv">>

ExtractedResults ==
    [f \in {ACsv, BCsv, ABCsv} |->
        CASE f = ACsv -> ExtractedTable(<<"a", ".", "pdf">>, <<"mEnv", "mSoc">>)
          [] f = BCsv -> ExtractedTable(<<"b", ".", "pdf">>, <<"mSoc", "mGov">>)
          [] f = ABCsv -> ExtractedTable(<<"a", "_", "b", ".", "pdf">>, <<"mUp">>)]

Restrict(fn, S) == [x \in S |-> fn[x]]

\* st.selectbox("Select ESG Category to Focus On", [...])
CategoryOptions == {Environmental, Social, Governance}

\* What is selected in the multiselect, in the order of selection: nothing,
\* one file, two files in either order, the file named after the pair.
SelectionChoices == {<<>>, <<ACsv>>, <<ACsv, BCsv>>, <<BCsv, ACsv>>, <<ABCsv>>}

Range(q) == {q[i] : i \in 1..Len(q)}

\* The selections the multiselect offers over the files of a directory.
Selections(dir) == {q \in SelectionChoices : Range(q) \subseteq DOMAIN dir}

\* os.path.splitext(f)[0]: the name up to its last dot, unless only dots come
\* before that dot (leading dots open no extension).
SplitextRoot(name) ==
    LET dots == {i \in 1..Len(name) : name[i] = "."}
    IN IF dots = {} \/ (\A i \in 1..(Max(dots) - 1) : name[i] = ".") THEN name
       ELSE SubSeq(name, 1, Max(dots) - 1)

\* .replace(" ", "_")
ReplaceSpaces(s) == [i \in 1..Len(s) |-> IF s[i] = " " THEN "_" ELSE s[i]]

\* "_".join(...)
RECURSIVE JoinUnderscore(_)
JoinUnderscore(parts) ==
    IF parts = <<>> THEN <<>>
    ELSE IF Len(parts) = 1 THEN parts[1]
    ELSE parts[1] \o <<"_">> \o JoinUnderscore(Tail(parts))

\* Lines 103-104: the cache file's name.
CacheFile(cat, selected) ==
    LET safe_fnames ==
            JoinUnderscore([i \in 1..Len(selected) |->
                               ReplaceSpaces(SplitextRoot(selected[i]))])
    IN <<"common_metrics_">> \o Lower(cat) \o <<"_">> \o safe_fnames \o <<".json">>

\* Lines 131-134: the table has the expected columns.
HasExpectedCols(table) == \A i \in 1..Len(table) : ColumnSet \subseteq DOMAIN table[i]

\* Line 135: df[df["category"].str.lower() == category.lower()]
FilterCategory(table, cat) ==
    SelectSeq(table, LAMBDA row : Lower(row.category) = Lower(cat))

\* Lines 126-138: the filtered frame of every selected file that has the columns.
RECURSIVE LoadFrames(_, _, _)
LoadFrames(dir, selected, cat) ==
    IF selected = <<>> THEN <<>>
    ELSE (IF HasExpectedCols(dir[Head(selected)])
          THEN <<FilterCategory(dir[Head(selected)], cat)>>
          ELSE <<>>)
         \o LoadFrames(dir, Tail(selected), cat)

\* What the oracle can answer to the grouping prompt.
CmpResponses ==
    { <<"w", "_", "F", "j", "_", "[", "{", "}", "]", "_", "F", "_", "w">>,
      <<"[", "{", "}", "]">>,
      <<"[", "{", "mSoc", "}", "]">>,
      <<"w">> }

CompareIdle ==
    /\ cache = <<>>
    /\ selected_files = <<>>
    /\ category = Environmental
    /\ cmp_result = "none"
    /\ cmp_calls = 0
    /\ cmp_known = FALSE
    /\ computed = {}

\* The widgets' values of one run of the page, and the sidebar's key.
Request(api_key, selected, cat) ==
    /\ selected \in Selections(csv)
    /\ cat \in CategoryOptions
    /\ selected_files' = selected
    /\ category' = cat
    /\ cmp_known' = (<<cat, Range(selected)>> \in computed)
    /\ env_key' = (env_key \/ api_key)
    /\ UNCHANGED <<csv, main_vars, parse_vars>>

\* Lines 83-86: no result file to choose from.
CompareNoFiles ==
    /\ DOMAIN csv = {}
    /\ \E api_key \in BOOLEAN, cat \in CategoryOptions : Request(api_key, <<>>, cat)
    /\ cmp_result' = "no_files"
    /\ UNCHANGED <<cache, cmp_calls, computed>>

\* Lines 98-100: nothing selected.
CompareNoSelection ==
    /\ DOMAIN csv # {}
    /\ \E api_key \in BOOLEAN, cat \in CategoryOptions : Request(api_key, <<>>, cat)
    /\ cmp_result' = "no_selection"
    /\ UNCHANGED <<cache, cmp_calls, computed>>

\* Lines 109-112: the cache file exists and is loaded.
CompareCached ==
    /\ \E api_key \in BOOLEAN, selected \in Selections(csv), cat \in CategoryOptions :
          /\ selected # <<>>
          /\ CacheFile(cat, selected) \in DOMAIN cache
          /\ Request(api_key, selected, cat)
    /\ cmp_result' = "cached"
    /\ UNCHANGED <<cache, cmp_calls, computed>>

\* Lines 191-192: no cache file and the button was not pressed.
CompareWaiting ==
    /\ \E api_key \in BOOLEAN, selected \in Selections(csv), cat \in CategoryOptions :
          /\ selected # <<>>
          /\ CacheFile(cat, selected) \notin DOMAIN cache
          /\ Request(api_key, selected, cat)
    /\ cmp_result' = "waiting"
    /\ UNCHANGED <<cache, cmp_calls, computed>>

\* The button with the cache file written before the response is parsed: a
\* response that is not JSON leaves an empty cache file behind.
CompareButtonWritesFirst ==
    /\ cmp_calls < MaxCmpCalls
    /\ \E api_key \in BOOLEAN, selected \in Selections(csv), cat \in CategoryOptions,
          response \in CmpResponses \cup {OracleError} :
          LET cache_file == CacheFile(cat, selected)
              dataframes == LoadFrames(csv, selected, cat)
              metrics_text == extract_json(response)
          IN /\ selected # <<>>
             /\ cache_file \notin DOMAIN cache
             /\ Request(api_key, selected, cat)
             /\ IF ~(env_key \/ api_key)
                THEN /\ cmp_result' = "no_key"
                     /\ UNCHANGED <<cache, cmp_calls, computed>>
                ELSE IF Len(dataframes) < 2
                THEN /\ cmp_result' = "insufficient"
                     /\ UNCHANGED <<cache, cmp_calls, computed>>
                ELSE /\ cmp_calls' = cmp_calls + 1
                     /\ IF response = OracleError
                        THEN /\ cmp_result' = "oracle_error"
                             /\ UNCHANGED <<cache, computed>>
                        ELSE IF ~JsonOk(metrics_text)
                        THEN /\ cmp_result' = "bad_json"
                             /\ cache' = WriteFile(cache, cache_file, Scalar)
                             /\ UNCHANGED computed
                        ELSE /\ cmp_result' = "computed"
                             /\ cache' = WriteFile(cache, cache_file, JsonLoads(metrics_text))
                             /\ computed' = computed \cup {<<cat, Range(selected)>>}

\* Lines 117-190: no cache file and the button was pressed.
CompareButton ==
    /\ cmp_calls < MaxCmpCalls
    /\ \E api_key \in BOOLEAN, selected \in Selections(csv), cat \in CategoryOptions,
          response \in CmpResponses \cup {OracleError} :
          LET cache_file == CacheFile(cat, selected)
              dataframes == LoadFrames(csv, selected, cat)
              metrics_text == extract_json(response)
          IN /\ selected # <<>>
             /\ cache_file \notin DOMAIN cache
             /\ Request(api_key, selected, cat)
             /\ IF ~(env_key \/ api_key)
                THEN /\ cmp_result' = "no_key"
                     /\ UNCHANGED <<cache, cmp_calls, computed>>
                ELSE IF Len(dataframes) < 2
                THEN /\ cmp_result' = "insufficient"
                     /\ UNCHANGED <<cache, cmp_calls, computed>>
                ELSE /\ cmp_calls' = cmp_calls + 1
                     /\ IF response = OracleError
                        THEN /\ cmp_result' = "oracle_error"
                             /\ UNCHANGED <<cache, computed>>
                        ELSE IF ~JsonOk(metrics_text)
                        THEN /\ cmp_result' = "bad_json"
                             /\ UNCHANGED <<cache, computed>>
                        ELSE /\ cmp_result' = "computed"
                             /\ cache' = WriteFile(cache, cache_file, JsonLoads(metrics_text))
                             /\ computed' = computed \cup {<<cat, Range(selected)>>}

(***************************************************************************)
(* app/mainModel1.py: the single-pass extraction page.  It shares          *)
(* data/extracted_results and data/cached_json with main.py and the        *)
(* comparison page.                                                        *)
(* It is a Streamlit script of its own, served by its own process: the    *)
(* key it puts into os.environ (line 29) stays in that process and is read *)
(* only by the MetricsExtractor of the same run, so env_key, the           *)
(* environment of main.py's process, is left as it is.                     *)
(***************************************************************************)
\* Line 98: Path("data/cached_json") / f"{Path(file_name).stem}.json"
JsonCachePath(name) == Stem(name) \o <<".json">>

\* Line 104: results_dir / f"{file_name}.csv"
Model1ResultCsv(name) == name \o <<".", "csv">>

\* Uploads: a report, and reports named after a comparison cache file.
Model1Files ==
    {<<"a", ".", "pdf">>}
        \cup {SubSeq(cf, 1, Len(cf) - 1) \o <<".", "pdf">> :
                 cf \in {CacheFile(Social, <<ACsv, BCsv>>),
                         CacheFile(Governance, <<BCsv, ACsv>>)}}

\* Line 139: if metrics_list
Truthy(content) ==
    \/ content.k = "scalar"
    \/ content.k = "dict" /\ content.d # EmptyDict
    \/ content.k = "list" /\ content.items # <<>>

\* Line 140: pd.DataFrame(metrics_list) raises ValueError for a scalar and for
\* a dict of scalar values.
Model1FrameRaises(content) == content.k # "list"

\* Lines 140-146: the frame of an array of objects, one row per object and one
\* column per key.  (The cached comparisons of this model are arrays of
\* objects.)
Model1Frame(content) ==
    LET rows == [i \in 1..Len(content.items) |-> content.items[i].d]
    IN [i \in 1..Len(rows) |-> [col \in FrameColumns(rows) |-> Cell(rows[i], col)]]

\* Line 141: df.empty
FrameEmpty(table) == table = <<>> \/ (\A i \in 1..Len(table) : DOMAIN table[i] = {})

\* Lines 90-92: a file is uploaded and the sidebar holds no API key.
Model1NoKey ==
    /\ pc = "idle"
    /\ last_result' = "no_key"
    /\ UNCHANGED <<env_key, csv, pc, file_name, rerun, run_calls, oracle_calls,
                   completed, run_vars>>
    /\ UNCHANGED <<cmp_vars, parse_vars>>

\* Lines 108-113: the result file of this page exists; it is read and shown.
Model1Cached ==
    /\ pc = "idle"
    /\ \E f \in Model1Files :
          /\ Model1ResultCsv(f) \in DOMAIN csv
          /\ file_name' = f
    /\ UNCHANGED env_key
    /\ last_result' = "cached"
    /\ UNCHANGED <<csv, pc, rerun, run_calls, oracle_calls, completed, run_vars>>
    /\ UNCHANGED <<cmp_vars, parse_vars>>

\* Lines 121-149: a file of data/cached_json is named after the upload's stem;
\* it is loaded in the place of an extraction and, if it gives a table with
\* rows and columns, saved as the upload's result file.
Model1FromJson ==
    /\ pc = "idle"
    /\ \E f \in Model1Files :
          /\ Model1ResultCsv(f) \notin DOMAIN csv
          /\ JsonCachePath(f) \in DOMAIN cache
          /\ file_name' = f
          /\ LET metrics_list == cache[JsonCachePath(f)]
             IN IF ~Truthy(metrics_list)
                THEN last_result' = "json_empty" /\ csv' = csv
                ELSE IF Model1FrameRaises(metrics_list)
                THEN last_result' = "ValueError" /\ csv' = csv
                ELSE IF FrameEmpty(Model1Frame(metrics_list))
                THEN last_result' = "no_table" /\ csv' = csv
                ELSE /\ last_result' = "saved_from_json"
                     /\ csv' = WriteFile(csv, Model1ResultCsv(f), Model1Frame(metrics_list))
    /\ UNCHANGED env_key
    /\ UNCHANGED <<pc, rerun, run_calls, oracle_calls, completed, run_vars>>
    /\ UNCHANGED <<cmp_vars, parse_vars>>

\* Lines 153-215: no result file and no cached JSON.  The document's text is
\* passed to extract_metrics as a list holding one string; extract_metrics
\* calls chunk.get on it (gemini_extractor.py line 40) and raises
\* AttributeError before its first oracle call (as do a failed import or a
\* failed conversion before it); the except branch reports the error, and
\* neither the JSON cache nor a result file is written.
Model1Extract ==
    /\ pc = "idle"
    /\ \E f \in Model1Files :
          /\ Model1ResultCsv(f) \notin DOMAIN csv
          /\ JsonCachePath(f) \notin DOMAIN cache
          /\ file_name' = f
    /\ UNCHANGED env_key
    /\ last_result' = "error"
    /\ UNCHANGED <<csv, pc, rerun, run_calls, oracle_calls, completed, run_vars>>
    /\ UNCHANGED <<cmp_vars, parse_vars>>

(***************************************************************************)
(* The specifications.                                                     *)
(***************************************************************************)
\* The extraction page of main.py, from a fresh installation.
Init ==
    /\ env_key = FALSE
    /\ csv = <<>>
    /\ MainIdle
    /\ CompareIdle
    /\ ParseIdle

Next ==
    \/ KeyOnly
    \/ UploadNoKey
    \/ UploadCached
    \/ UploadNew
    \/ PartUnreadable
    \/ PartExtract

Spec == Init /\ [][Next]_vars

\* The parsing step of extract_metrics on every bounded response text.
InitParse ==
    /\ env_key = TRUE
    /\ csv = <<>>
    /\ MainIdle
    /\ CompareIdle
    /\ ParseInit

NextParse == ParseResponse

SpecParse == InitParse /\ [][NextParse]_vars

\* The comparison page, over result files of earlier extractions.
InitCompare ==
    /\ env_key = FALSE
    /\ csv \in {Restrict(ExtractedResults, S) : S \in SUBSET (DOMAIN ExtractedResults)}
    /\ MainIdle
    /\ CompareIdle
    /\ ParseIdle

NextCompare ==
    \/ CompareNoFiles
    \/ CompareNoSelection
    \/ CompareCached
    \/ CompareWaiting
    \/ CompareButton

SpecCompare == InitCompare /\ [][NextCompare]_vars

\* Both pages on an installation that has result files and no credential yet:
\* the extraction page is visited with an empty key field, the comparison
\* page with or without a key in the sidebar.
NextNoKey ==
    \/ UploadNoKey
    \/ CompareNoFiles
    \/ CompareNoSelection
    \/ CompareCached
    \/ CompareWaiting
    \/ CompareButton

SpecNoKey == InitCompare /\ [][NextNoKey]_vars

\* The single-pass extraction page of mainModel1.py next to the comparison
\* page, whose cache files it can take for cached extractions.
NextModel1 ==
    \/ Model1NoKey
    \/ Model1Cached
    \/ Model1FromJson
    \/ Model1Extract
    \/ CompareNoFiles
    \/ CompareNoSelection
    \/ CompareCached
    \/ CompareWaiting
    \/ CompareButton

SpecModel1 == InitCompare /\ [][NextModel1]_vars

(***************************************************************************)
(* What the part log says about the current run.                           *)
(***************************************************************************)
\* The run of the extraction pipeline is over (it was not stopped at the key
\* guard or at the cache check).
RunOver == pc = "idle" /\ last_result \in {"saved", "no_metrics", "KeyError"}

EntryChunks(e) ==
    [i \in 1..Len(e.responses) |->
        [page_number |-> e.pages[i], response |-> e.responses[i]]]

EntryExtract(e) == ExtractMetrics(EntryChunks(e))

EntryNormal(e) == NormalizeAll(EntryExtract(e).recs, file_name)

\* The part was processed without an exception.
EntryOk(e) == e.read /\ ~EntryExtract(e).raised /\ ~EntryNormal(e).raised

\* The part failed in the normalization of the records extracted from it.
EntryNormalizeFailed(e) == e.read /\ ~EntryExtract(e).raised /\ EntryNormal(e).raised

\* The records extracted from the part, if it succeeded.
EntryRecs(e) == IF EntryOk(e) THEN EntryNormal(e).recs ELSE <<>>

\* The number of pages of the parts before part j.
RECURSIVE PagesBefore(_)
PagesBefore(j) == IF j <= 1 THEN 0 ELSE PagesBefore(j - 1) + pdf_parts[j - 1]

(***************************************************************************)
(* The claims.                                                             *)
(***************************************************************************)

\* C1 (as claimed): a run of the pipeline for an identifier that an earlier
\* run already ran to completion makes no oracle call.
C1_RerunMakesNoOracleCall == rerun => run_calls = 0

\* C2 (as claimed): the parsing step of extract_metrics raises for no
\* response text.
C2_ParsingNeverRaises == p_out.done => ~p_out.raised

\* C3 (as claimed): every record of the aggregated list has a category among
\* Environmental, Social, Governance, and no part fails in the normalization.
C3_CategoriesNormalized ==
    /\ \A i \in 1..Len(all_metrics) : all_metrics[i].category \in ValidCategories
    /\ \A j \in 1..Len(part_log) : ~EntryNormalizeFailed(part_log[j])

\* The selected tables that have at least one row of the category.
MatchingTables(dir, selected, cat) ==
    {i \in 1..Len(selected) :
        /\ HasExpectedCols(dir[selected[i]])
        /\ FilterCategory(dir[selected[i]], cat) # <<>>}

\* The last run of the compare page got past the credential check / called
\* the oracle / wrote a cache file.
CmpRan == cmp_result \in {"insufficient", "oracle_error", "bad_json", "computed"}
CmpCalledOracle == cmp_result \in {"oracle_error", "bad_json", "computed"}
CmpWroteCache == cmp_result = "computed"

\* C4 (as claimed): a comparison run with fewer than two selected tables that
\* have a row of the category reports insufficient input, calls no oracle and
\* writes no cache file.
C4_MinimumInputGuard ==
    (CmpRan /\ Cardinality(MatchingTables(csv, selected_files, category)) < 2)
        => (cmp_result = "insufficient" /\ ~CmpCalledOracle /\ ~CmpWroteCache)

\* C5 (as claimed): a request whose category and document set were computed
\* and cached before is not computed again, in whatever order the documents
\* are selected: it is served from the cache (or, at the least, waits for the
\* button) and makes no oracle call.
C5_KnownRequestNotRecomputed ==
    cmp_known => (cmp_result \in {"cached", "waiting"} /\ ~CmpCalledOracle)

\* The records of the parts that succeeded, in the order of the parts.
RECURSIVE SucceededRecords(_)
SucceededRecords(log) ==
    IF log = <<>> THEN <<>>
    ELSE SucceededRecords(SubSeq(log, 1, Len(log) - 1)) \o EntryRecs(log[Len(log)])

\* C6 (as claimed): a part that fails does not end the run: when the run is
\* over every part has been processed, the aggregated list holds exactly the
\* records of the parts that succeeded, and, in any pattern of failing and
\* succeeding parts, those records are the table persisted at the end.
C6_ChunkFailureIsolation ==
    /\ (pc = "loop" \/ RunOver) => all_metrics = SucceededRecords(part_log)
    /\ RunOver => Len(part_log) = Len(pdf_parts)
    /\ (RunOver /\ SucceededRecords(part_log) # <<>>) =>
          /\ ResultCsv(file_name) \in DOMAIN csv
          /\ csv[ResultCsv(file_name)] = Project(SucceededRecords(part_log))

\* C7 (as claimed): the k-th page of every part that was read got the number
\* k plus the page count of the parts before it.
C7_AbsolutePageNumbers ==
    \A j \in 1..Len(part_log) :
        part_log[j].read =>
            part_log[j].pages = [k \in 1..pdf_parts[j] |-> PagesBefore(j) + k]

\* C8 (as claimed): a run that ends with a non-empty aggregated list has
\* saved a table whose rows have exactly the six columns.
C8_ColumnProjection ==
    (RunOver /\ all_metrics # <<>>) =>
        /\ last_result = "saved"
        /\ ResultCsv(file_name) \in DOMAIN csv
        /\ \A i \in 1..Len(csv[ResultCsv(file_name)]) :
              DOMAIN csv[ResultCsv(file_name)][i] = ColumnSet

\* No JSON array or object can be recovered from the text: not from the text
\* as a whole, not from a fenced block, not from a bracketed or braced span.
NoJsonRecoverable(text) ==
    LET raw == Strip(text)
    IN /\ ~(JsonOk(raw) /\ JsonLoads(raw).k \in {"list", "dict"})
       /\ ~(FenceStarts(raw) # {} /\ JsonOk(extract_json(raw)))
       /\ ~(SpanSearch(raw) # NoMatch /\ JsonOk(SpanSearch(raw)))

\* C9 (as claimed): a response from which no JSON array or object can be
\* recovered gives exactly one unparsed record, with the response text (less
\* the whitespace around it) and the page number.
C9_UnparsedRecordEmitted ==
    (p_out.done /\ NoJsonRecoverable(p_text)) =>
        /\ ~p_out.raised
        /\ p_out.recs = <<Unparsed(Strip(p_text), p_page)>>

\* The text is prose, then the fenced block, then prose.
HasFencedCore(text, core) ==
    \E i \in 0..(Len(text) - Len(core)) :
        /\ SubSeq(text, i + 1, i + Len(core)) = core
        /\ \A n \in (1..i) \cup ((i + Len(core) + 1)..Len(text)) : text[n] # "F"

\* C10 (as claimed): for prose, a fenced array, prose, the records are the
\* objects of the fenced array, in order.
C10_FencedArrayExtracted ==
    \A core \in FencedCores :
        (p_out.done /\ HasFencedCore(p_text, core)) =>
            /\ ~p_out.raised
            /\ p_out.recs = RecordsOf(JsonLoads(extract_json(core)), p_page)

\* A record as <<metric name, page>>; a record without a name (an unparsed
\* one) shows NaN, as its cell of the table does.
RecordKey(m) == <<Cell(m, "metric_name"), m.source_page>>

KeysOf(recs) == [i \in 1..Len(recs) |-> RecordKey(recs[i])]

\* What the oracle returned for a page, read off the response text: the
\* objects of its array from left to right, or the text as a whole when it
\* holds no bracket and no brace.
ReturnedKeys(text, page_number) ==
    LET toks == SelectSeq(text, LAMBDA x : x \in MemberToks)
    IN IF \A i \in 1..Len(text) : text[i] \notin {"[", "]", "{", "}"}
       THEN << <<NaN, page_number>> >>
       ELSE [i \in 1..Len(toks) |-> <<MemberDict(toks[i]).metric_name, page_number>>]

RECURSIVE PagesInOrder(_, _)
PagesInOrder(e, n) ==
    IF n = 0 THEN <<>>
    ELSE PagesInOrder(e, n - 1) \o ReturnedKeys(e.responses[n], e.pages[n])

RECURSIVE PartsInOrder(_)
PartsInOrder(log) ==
    IF log = <<>> THEN <<>>
    ELSE PartsInOrder(SubSeq(log, 1, Len(log) - 1))
         \o (IF EntryOk(log[Len(log)])
             THEN PagesInOrder(log[Len(log)], Len(log[Len(log)].responses))
             ELSE <<>>)

\* The rows of the saved table as <<metric name, page>>.
SavedKeys(table) ==
    [i \in 1..Len(table) |-> <<table[i].metric_name, table[i].source.page[1]>>]

\* C11: the aggregated list is the records of the parts in part order, of the
\* pages in page order and of each page's array in array order, every one kept
\* (nothing removed as a duplicate, nothing sorted), and the saved table has
\* the same rows in the same order.
C11_AggregationOrder ==
    /\ (pc = "loop" \/ RunOver) => KeysOf(all_metrics) = PartsInOrder(part_log)
    /\ (RunOver /\ last_result = "saved") =>
          SavedKeys(csv[ResultCsv(file_name)]) = KeysOf(all_metrics)

\* C11 witness: a saved run of two parts that both gave records, with a page
\* that returned several records and a metric returned for two pages, which
\* appears twice.
C11_Witness ==
    /\ RunOver
    /\ last_result = "saved"
    /\ Len(part_log) >= 2
    /\ \A j \in 1..Len(part_log) : EntryRecs(part_log[j]) # <<>>
    /\ \E j \in 1..Len(part_log) : \E n \in 1..Len(part_log[j].responses) :
          Len(ReturnedKeys(part_log[j].responses[n], part_log[j].pages[n])) >= 2
    /\ \E i, j \in 1..Len(all_metrics) :
          /\ i < j
          /\ RecordKey(all_metrics[i])[1] = RecordKey(all_metrics[j])[1]
          /\ RecordKey(all_metrics[i])[2] # RecordKey(all_metrics[j])[2]

\* The last run of the compare page failed: no credential, too few tables, the
\* oracle call raised, or its response held no valid JSON.
CmpFailed == cmp_result \in {"no_key", "insufficient", "oracle_error", "bad_json"}

\* C12: a comparison that fails leaves the cache as it was: the same files
\* with the same contents.
C12_FailedComparisonKeepsCache == [][CmpFailed' => cache' = cache]_vars

\* C12 witness: a comparison has failed on a response without valid JSON
\* while the cache held a file.
C12_Witness == cmp_result = "bad_json" /\ DOMAIN cache # {}

\* C13: a script run during which no credential is configured (none in the
\* environment, none in the sidebar) makes no oracle call, writes no metric
\* table and no comparison cache, splits and processes nothing, and does not
\* get as far as loading the tables for a comparison: an upload ends at the
\* key guard, a comparison at the credential check.
C13_CredentialFailFast ==
    [][~env_key' =>
          /\ oracle_calls' = oracle_calls /\ cmp_calls' = cmp_calls
          /\ csv' = csv /\ cache' = cache
          /\ pc' = "idle" /\ pdf_parts' = pdf_parts /\ part_log' = part_log
          /\ all_metrics' = all_metrics
          /\ last_result' \in {"none", "no_key"}
          /\ ~CmpRan']_vars

\* C13 witness: without a credential a file was uploaded and, with result
\* files selected, the compare button was pressed.
C13_Witness ==
    /\ ~env_key
    /\ last_result = "no_key"
    /\ cmp_result = "no_key"
    /\ Len(selected_files) >= 2

\* C14: a metric table that exists is never modified, rewritten or deleted
\* by a run of the extraction pipeline, whatever runs follow.
C14_MetricTableWriteOnce ==
    [][\A f \in DOMAIN csv : f \in DOMAIN csv' /\ csv'[f] = csv[f]]_vars

\* C14 witness: a document whose table exists was uploaded again (and served
\* from the table) after its run had completed.
C14_Witness ==
    /\ rerun
    /\ last_result = "cached"
    /\ ResultCsv(file_name) \in DOMAIN csv

\* C15 (as claimed): no two oracle calls of a run follow each other without a
\* cooldown between them.
C15_CooldownBetweenCalls ==
    \A i \in 1..(Len(events) - 1) : ~(events[i] = "call" /\ events[i + 1] = "call")

\* C16 (as claimed): two requests that differ in category or in the set of
\* selected files never share a cache file name, so a request that is served
\* from the cache is served the comparison computed for its own category and
\* document set.
C16_CachedAnswerIsOwn == cmp_result = "cached" => cmp_known
====
